---- MODULE Spec2Model ----
(***************************************************************************)
(* Model of flask-marshmallow/flask_example.py: two tables (author,        *)
(* quote), the marshmallow schemas with the pre-load hook process_author,  *)
(* the request hooks before_request / teardown_request and the five route  *)
(* handlers.  Each worker thread of the server handles one request at a    *)
(* time: before_request, the view function, teardown_request.              *)
(*                                                                         *)
(* Strings are sequences of one-character strings.  A JSON value is a      *)
(* record [t, s]: t = "missing" (key absent), "str" (a string, s its       *)
(* text) or "obj" (a non-empty JSON object).                               *)
(***************************************************************************)
EXTENDS Integers, Sequences, FiniteSets, TLC

VARIABLES authors, quotes, sessions, created, pc, req, resp, data, g, lookup

vars == <<authors, quotes, sessions, created, pc, req, resp, data, g, lookup>>

\* ---------------------------------------------------------------- bounds
\* longest author string of a request handled with no other in flight
MaxLen == 5
\* longest author string of a request handled concurrently with another
MaxRaceLen == 3
MaxPk == 1
\* requests served; every one of them creates a session
MaxRequests == 2

Workers == {"w1", "w2"}
Alphabet == {"a", " "}

Strs(n) == UNION {[1..k -> Alphabet] : k \in 0..n}

\* --------------------------------------------------------- JSON values
Missing == [t |-> "missing", s |-> <<>>]
Str(s) == [t |-> "str", s |-> s]
Obj == [t |-> "obj", s |-> <<>>]

\* Python truthiness of a value read with dict.get: None, "" are falsy
Truthy(v) == \/ v.t = "obj"
             \/ v.t = "str" /\ v.s # <<>>

ContentValues == {Missing, Str(<<>>), Str(<<"a">>)}
AuthorValues(n) == {Missing, Obj} \cup {Str(s) : s \in Strs(n)}

EmptyBody == [empty |-> TRUE, content |-> Missing, author |-> Missing]
Bodies(n) == {EmptyBody} \cup
             [empty : {FALSE}, content : ContentValues, author : AuthorValues(n)]

\* ------------------------------------------------------------- str.split
\* variant: s.split(' ', 1), cut at the first space only
SplitOnce(s) ==
    IF \A i \in 1..Len(s) : s[i] # " " THEN <<s>>
    ELSE LET i == CHOOSE k \in 1..Len(s) :
                      s[k] = " " /\ \A j \in 1..(k-1) : s[j] # " "
         IN <<SubSeq(s, 1, i-1), SubSeq(s, i+1, Len(s))>>

\* s.split(' '): cut at every single space, empty pieces kept
RECURSIVE Split(_)
Split(s) ==
    IF \A i \in 1..Len(s) : s[i] # " " THEN <<s>>
    ELSE LET i == CHOOSE k \in 1..Len(s) :
                      s[k] = " " /\ \A j \in 1..(k-1) : s[j] # " "
         IN <<SubSeq(s, 1, i-1)>> \o Split(SubSeq(s, i+1, Len(s)))

\* -------------------------------------------------------------- schemas
EmptyDict == [empty |-> TRUE, first |-> <<>>, last |-> <<>>]
AuthorDict(f, l) == [empty |-> FALSE, first |-> f, last |-> l]

\* variant: the content field declared without validate=must_not_be_blank
BlankStrUnchecked(s) == FALSE

\* must_not_be_blank: raises ValidationError when `not data`
BlankStr(s) == s = <<>>
BlankDict(d) == d.empty

\* variant: an absent author defaults to an author with empty names
\* instead of an empty object
process_author_default(body) ==
    IF Truthy(body.author)
    THEN IF body.author.t = "obj"
         THEN [ok |-> FALSE, exc |-> "AttributeError", author |-> EmptyDict]
         ELSE LET parts == Split(body.author.s)
              IN IF Len(parts) = 2
                 THEN [ok |-> TRUE, exc |-> "",
                       author |-> AuthorDict(parts[1], parts[2])]
                 ELSE [ok |-> FALSE, exc |-> "ValueError", author |-> EmptyDict]
    ELSE [ok |-> TRUE, exc |-> "", author |-> AuthorDict(<<>>, <<>>)]

\* QuoteSchema.process_author (pre_load).  `first, last = name.split(' ')`
\* raises ValueError unless the split yields exactly two pieces; a JSON
\* object has no split method (AttributeError).
process_author(body) ==
    IF Truthy(body.author)
    THEN IF body.author.t = "obj"
         THEN [ok |-> FALSE, exc |-> "AttributeError", author |-> EmptyDict]
         ELSE LET parts == Split(body.author.s)
              IN IF Len(parts) = 2
                 THEN [ok |-> TRUE, exc |-> "",
                       author |-> AuthorDict(parts[1], parts[2])]
                 ELSE [ok |-> FALSE, exc |-> "ValueError", author |-> EmptyDict]
    ELSE [ok |-> TRUE, exc |-> "", author |-> EmptyDict]

\* field-level validation of QuoteSchema after the pre-load hook:
\* content is required and must not be blank; the nested author must not
\* be blank
FieldErrors(content, author) ==
    (IF content.t = "missing" \/ BlankStr(content.s) THEN {"content"} ELSE {})
    \cup (IF BlankDict(author) THEN {"author"} ELSE {})

NoData == [content |-> <<>>, author |-> EmptyDict]

\* quote_schema.load(json_data): (data, errors), or the hook's exception
load(body) ==
    LET pre == process_author(body) IN
    IF ~pre.ok
    THEN [raised |-> TRUE, exc |-> pre.exc, errors |-> {}, data |-> NoData]
    ELSE [raised |-> FALSE, exc |-> "",
          errors |-> FieldErrors(body.content, pre.author),
          data |-> [content |-> body.content.s, author |-> pre.author]]

\* ------------------------------------------------------------ responses
NoResp == [status |-> 0, message |-> "", errors |-> {}, exc |-> "", rows |-> {}]
Json(status, message) ==
    [status |-> status, message |-> message, errors |-> {}, exc |-> "", rows |-> {}]
\* an exception no handler catches: the framework answers 500
Unhandled(exc) ==
    [status |-> 500, message |-> "", errors |-> {}, exc |-> exc, rows |-> {}]

\* Author.query / Quote.query: the classes derive from declarative_base()
\* and define no `query` attribute, so the attribute access raises
ModelQuery == "AttributeError"

get_authors == Unhandled(ModelQuery)

get_author(pk) == Unhandled(ModelQuery)

\* quotes_schema = QuoteSchema(many=True, only=('id', 'content'))
get_quotes ==
    [status |-> 200, message |-> "", errors |-> {}, exc |-> "",
     rows |-> {[id |-> q.id, content |-> q.content] : q \in quotes}]

get_quote(pk) == Unhandled(ModelQuery)

\* new_quote up to the validation result: a response, or the loaded data
new_quote_load(body) ==
    IF body.empty
    THEN [done |-> TRUE, resp |-> Json(400, "No input data provided"),
          data |-> NoData]
    ELSE LET r == load(body) IN
         IF r.raised
         THEN [done |-> TRUE, resp |-> Unhandled(r.exc), data |-> NoData]
         ELSE IF r.errors # {}
         THEN [done |-> TRUE,
               resp |-> [status |-> 422, message |-> "", errors |-> r.errors,
                         exc |-> "", rows |-> {}],
               data |-> NoData]
         ELSE [done |-> FALSE, resp |-> NoResp, data |-> r.data]

\* ------------------------------------------------------------- requests
NoReq == [route |-> "none", pk |-> 0, body |-> EmptyBody]
Requests(n) ==
    [route : {"get_authors", "get_quotes"}, pk : {0}, body : {EmptyBody}]
    \cup [route : {"get_author", "get_quote"}, pk : 1..MaxPk, body : {EmptyBody}]
    \cup [route : {"new_quote"}, pk : {0}, body : Bodies(n)]

\* The tables are dropped and created anew when the server starts.  An
\* author row is [id, first, last]; a quote row is [id, content, author_id,
\* posted_at].
Init ==
    /\ authors = {}
    /\ quotes = {}
    /\ sessions = {}
    /\ created = 0
    /\ pc = [w \in Workers |-> "idle"]
    /\ req = [w \in Workers |-> NoReq]
    /\ resp = [w \in Workers |-> NoResp]
    /\ data = [w \in Workers |-> NoData]
    /\ g = [w \in Workers |-> 0]
    /\ lookup = [w \in Workers |-> "not_run"]

\* before_request: g.db_session = Session()
before_request(w, r) ==
    /\ pc[w] = "idle"
    /\ created < MaxRequests
    /\ created' = created + 1
    /\ sessions' = sessions \cup {created + 1}
    /\ g' = [g EXCEPT ![w] = created + 1]
    /\ req' = [req EXCEPT ![w] = r]
    /\ pc' = [pc EXCEPT ![w] = "view"]
    /\ UNCHANGED <<authors, quotes, resp, data, lookup>>

\* a threaded server: a worker takes a request whatever the others do
Receive(w) == \E r \in Requests(MaxRaceLen) : before_request(w, r)

\* app.run's single-threaded server: one request at a time
SerialReceive(w) ==
    /\ \A o \in Workers \ {w} : pc[o] = "idle"
    /\ \E r \in Requests(MaxLen) : before_request(w, r)

Return(w, response) ==
    /\ resp' = [resp EXCEPT ![w] = response]
    /\ pc' = [pc EXCEPT ![w] = "teardown"]

GetAuthors(w) ==
    /\ pc[w] = "view" /\ req[w].route = "get_authors"
    /\ Return(w, get_authors)
    /\ UNCHANGED <<authors, quotes, sessions, created, req, data, g, lookup>>

GetAuthor(w) ==
    /\ pc[w] = "view" /\ req[w].route = "get_author"
    /\ Return(w, get_author(req[w].pk))
    /\ UNCHANGED <<authors, quotes, sessions, created, req, data, g, lookup>>

GetQuotes(w) ==
    /\ pc[w] = "view" /\ req[w].route = "get_quotes"
    /\ Return(w, get_quotes)
    /\ UNCHANGED <<authors, quotes, sessions, created, req, data, g, lookup>>

GetQuote(w) ==
    /\ pc[w] = "view" /\ req[w].route = "get_quote"
    /\ Return(w, get_quote(req[w].pk))
    /\ UNCHANGED <<authors, quotes, sessions, created, req, data, g, lookup>>

\* variant: the author row is written as soon as the name is parsed,
\* before the validation result is looked at
NewQuoteLoadEager(w) ==
    /\ pc[w] = "view" /\ req[w].route = "new_quote"
    /\ LET r == new_quote_load(req[w].body)
           pre == process_author(req[w].body)
       IN /\ IF r.done
             THEN /\ Return(w, r.resp)
                  /\ UNCHANGED data
             ELSE /\ data' = [data EXCEPT ![w] = r.data]
                  /\ pc' = [pc EXCEPT ![w] = "lookup"]
                  /\ UNCHANGED resp
          /\ authors' =
                IF ~req[w].body.empty /\ pre.ok /\ ~pre.author.empty
                THEN authors \cup {[id |-> Cardinality(authors) + 1,
                                    first |-> pre.author.first,
                                    last |-> pre.author.last]}
                ELSE authors
    /\ UNCHANGED <<quotes, sessions, created, req, g, lookup>>

\* new_quote, lines 121-127: get_json, load, the 400 and 422 answers
NewQuoteLoad(w) ==
    /\ pc[w] = "view" /\ req[w].route = "new_quote"
    /\ LET r == new_quote_load(req[w].body) IN
       IF r.done
       THEN /\ Return(w, r.resp)
            /\ UNCHANGED data
       ELSE /\ data' = [data EXCEPT ![w] = r.data]
            /\ pc' = [pc EXCEPT ![w] = "lookup"]
            /\ UNCHANGED resp
    /\ UNCHANGED <<authors, quotes, sessions, created, req, g, lookup>>

\* new_quote, line 129: Author.query.filter_by(first=..., last=...).first()
\* raises on the attribute access; lines 130-144 are not reached
NewQuoteLookup(w) ==
    /\ pc[w] = "lookup"
    /\ lookup' = [lookup EXCEPT ![w] =
          IF \E a \in authors : a.first = data[w].author.first
                                /\ a.last = data[w].author.last
          THEN "row" ELSE "no_row"]
    /\ Return(w, Unhandled(ModelQuery))
    /\ UNCHANGED <<authors, quotes, sessions, created, req, data, g>>

\* teardown_request only prints; the response is sent and the request
\* context (g, request) is popped
teardown_request(w) ==
    /\ pc[w] = "teardown"
    /\ pc' = [pc EXCEPT ![w] = "idle"]
    /\ g' = [g EXCEPT ![w] = 0]
    /\ req' = [req EXCEPT ![w] = NoReq]
    /\ resp' = [resp EXCEPT ![w] = NoResp]
    /\ data' = [data EXCEPT ![w] = NoData]
    /\ lookup' = [lookup EXCEPT ![w] = "not_run"]
    /\ UNCHANGED <<authors, quotes, sessions, created>>

View(w) ==
    \/ GetAuthors(w)
    \/ GetAuthor(w)
    \/ GetQuotes(w)
    \/ GetQuote(w)
    \/ NewQuoteLoad(w)
    \/ NewQuoteLookup(w)

Next ==
    \E w \in Workers :
        \/ Receive(w)
        \/ View(w)
        \/ teardown_request(w)

Spec == Init /\ [][Next]_vars

SerialNext ==
    \E w \in Workers :
        \/ SerialReceive(w)
        \/ View(w)
        \/ teardown_request(w)

SerialSpec == Init /\ [][SerialNext]_vars

\* ------------------------------------------------ vocabulary of the claims
\* the view function of w has returned (or raised): resp[w] is the answer
Handled(w) == pc[w] = "teardown"
IsPost(w) == req[w].route = "new_quote" /\ ~req[w].body.empty

Spaces(s) == {i \in 1..Len(s) : s[i] = " "}
OneSpace(s) == Cardinality(Spaces(s)) = 1
FirstSpace(s) == CHOOSE i \in Spaces(s) : \A j \in Spaces(s) : i <= j
\* the text before the first space and everything after it
BeforeSpace(s) == IF Spaces(s) = {} THEN s ELSE SubSeq(s, 1, FirstSpace(s) - 1)
AfterSpace(s) == IF Spaces(s) = {} THEN <<>>
                 ELSE SubSeq(s, FirstSpace(s) + 1, Len(s))

NonBlankContent(b) == b.content.t = "str" /\ b.content.s # <<>>
NameString(b) == b.author.t = "str" /\ b.author.s # <<>>
\* a body that passes validation: non-blank content, author "F L"
ValidBody(b) == NonBlankContent(b) /\ NameString(b) /\ OneSpace(b.author.s)
\* ... with non-empty single-token F and L
FullNameBody(b) ==
    /\ ValidBody(b)
    /\ BeforeSpace(b.author.s) # <<>>
    /\ AfterSpace(b.author.s) # <<>>

Named(f, l) == {a \in authors : a.first = f /\ a.last = l}
TablesUnchanged == authors' = authors /\ quotes' = quotes
\* the step is w's view function running from its first line
LoadStep(w) == pc[w] = "view" /\ pc'[w] # "view"

\* C1: once a valid POST for (F, L) has been handled with no other request
\* in flight, exactly one author row (F, L) exists (one added when there
\* was none, none added when there was one) and a quote row with the
\* posted content references it.
C1_AuthorCreatedOrReused ==
    \A w \in Workers :
        (Handled(w) /\ IsPost(w) /\ ValidBody(req[w].body)) =>
            LET f == BeforeSpace(req[w].body.author.s)
                l == AfterSpace(req[w].body.author.s)
            IN /\ Cardinality(Named(f, l)) = 1
               /\ \E a \in Named(f, l) : \E q \in quotes :
                      q.author_id = a.id /\ q.content = req[w].body.content.s

\* C2: GET /authors/<id> (GET /quotes/<id>) with an id that matches no row
\* is answered with 400 and the "could not be found" message.
C2_NotFoundIs400 ==
    \A w \in Workers :
        /\ (Handled(w) /\ req[w].route = "get_author"
               /\ ~\E a \in authors : a.id = req[w].pk)
           => (resp[w].status = 400
               /\ resp[w].message = "Author could not be found.")
        /\ (Handled(w) /\ req[w].route = "get_quote"
               /\ ~\E q \in quotes : q.id = req[w].pk)
           => (resp[w].status = 400
               /\ resp[w].message = "Quote could not be found.")

\* C3 as stated: a POST with empty content is answered with 422 and an
\* error entry "content", whatever the author value is.
C3_BlankContentAlways422 ==
    \A w \in Workers :
        (Handled(w) /\ IsPost(w) /\ req[w].body.content = Str(<<>>)) =>
            (resp[w].status = 422 /\ "content" \in resp[w].errors)

\* the author values the pre-load hook accepts: absent, empty, or a string
\* with exactly one space
Splittable(v) == ~Truthy(v) \/ (v.t = "str" /\ OneSpace(v.s))

\* C3 amended: a POST with empty content inserts no row; it is answered
\* with 422 and an error entry "content" when the author is absent, empty
\* or a string with exactly one space, and ends in an unhandled error (500)
\* for every other author value.
C3_BlankContent ==
    [][\A w \in Workers :
          (LoadStep(w) /\ IsPost(w) /\ req[w].body.content = Str(<<>>)) =>
              /\ TablesUnchanged
              /\ pc'[w] = "teardown"
              /\ IF Splittable(req[w].body.author)
                 THEN resp'[w].status = 422 /\ "content" \in resp'[w].errors
                 ELSE resp'[w].status = 500
                      /\ resp'[w].exc \in {"ValueError", "AttributeError"}]_vars

C3_Witness ==
    \E w \in Workers :
        /\ Handled(w) /\ IsPost(w)
        /\ req[w].body.content = Str(<<>>)
        /\ req[w].body.author = Str(<<"a", " ", "a">>)
        /\ resp[w].status = 422 /\ "content" \in resp[w].errors

\* C4: a POST whose non-empty body has no author key, or an empty author
\* string, gets an empty author object from the pre-load hook, is answered
\* with 422 and an error entry "author", and inserts no row.
C4_MissingAuthor422 ==
    [][\A w \in Workers :
          (LoadStep(w) /\ IsPost(w) /\ ~Truthy(req[w].body.author)) =>
              /\ process_author(req[w].body).author = EmptyDict
              /\ pc'[w] = "teardown"
              /\ resp'[w].status = 422
              /\ "author" \in resp'[w].errors
              /\ TablesUnchanged]_vars

C4_Witness ==
    \E w \in Workers :
        /\ Handled(w) /\ IsPost(w)
        /\ req[w].body.author = Missing
        /\ req[w].body.content = Str(<<"a">>)
        /\ resp[w].status = 422 /\ resp[w].errors = {"author"}

\* C5: a valid POST {"content": C, "author": "F L"} is answered with 200,
\* "Created new quote." and a quote with content C and author F, L.
C5_ValidPostEchoed ==
    \A w \in Workers :
        (Handled(w) /\ IsPost(w) /\ FullNameBody(req[w].body)) =>
            /\ resp[w].status = 200
            /\ resp[w].message = "Created new quote."
            /\ \E r \in resp[w].rows :
                  /\ r.content = req[w].body.content.s
                  /\ r.first = BeforeSpace(req[w].body.author.s)
                  /\ r.last = AfterSpace(req[w].body.author.s)

\* C7: every step leaves both tables as they are, unless it is a step of
\* the POST handler that ends in 200, and then it only adds rows.
C7_RowsOnlyAddedByPost ==
    [][\/ TablesUnchanged
       \/ \E w \in Workers :
             /\ IsPost(w) /\ pc[w] \in {"view", "lookup"}
             /\ resp'[w].status = 200
             /\ authors \subseteq authors'
             /\ quotes \subseteq quotes']_vars

C7_Witness ==
    \E w1, w2 \in Workers :
        /\ Handled(w1) /\ req[w1].route = "get_quotes" /\ resp[w1].status = 200
        /\ Handled(w2) /\ IsPost(w2) /\ resp[w2].status = 422
        /\ authors = {} /\ quotes = {}

\* C8: when two POSTs for the same author have both looked the author up
\* while no row for it was committed, two author rows with the same first
\* and last exist once both are handled.
C8_RaceDuplicatesAuthor ==
    \A w1, w2 \in Workers :
        (/\ w1 # w2
         /\ Handled(w1) /\ IsPost(w1) /\ ValidBody(req[w1].body)
         /\ Handled(w2) /\ IsPost(w2) /\ ValidBody(req[w2].body)
         /\ req[w1].body.author = req[w2].body.author
         /\ lookup[w1] = "no_row" /\ lookup[w2] = "no_row")
        => Cardinality(Named(BeforeSpace(req[w1].body.author.s),
                             AfterSpace(req[w1].body.author.s))) = 2

\* C9: every open session belongs to a request whose teardown has not run.
C9_SessionReleased ==
    \A s \in sessions : \E w \in Workers : pc[w] # "idle" /\ g[w] = s

\* C10 as stated: for every non-empty author string the pre-load hook
\* yields first = the text before the first space and last = everything
\* after it, and does not fail.
C10_SplitOnFirstSpace ==
    \A w \in Workers :
        (IsPost(w) /\ NameString(req[w].body) /\ pc[w] \in {"lookup", "teardown"}) =>
            /\ resp[w].exc # "ValueError"
            /\ pc[w] = "lookup" =>
                   data[w].author = AuthorDict(BeforeSpace(req[w].body.author.s),
                                               AfterSpace(req[w].body.author.s))

\* C10 amended: for a non-empty author string with exactly one space the
\* hook yields first = the text before the space and last = the text after
\* it; for every other non-empty string (no space, or more than one) the
\* hook raises ValueError and the request ends in an unhandled error.
C10_SplitExactlyOneSpace ==
    \A w \in Workers :
        (IsPost(w) /\ NameString(req[w].body) /\ pc[w] \in {"lookup", "teardown"}) =>
            IF OneSpace(req[w].body.author.s)
            THEN /\ resp[w].exc # "ValueError"
                 /\ pc[w] = "lookup" =>
                        data[w].author =
                            AuthorDict(BeforeSpace(req[w].body.author.s),
                                       AfterSpace(req[w].body.author.s))
            ELSE /\ pc[w] = "teardown"
                 /\ resp[w].status = 500
                 /\ resp[w].exc = "ValueError"

C10_Witness ==
    \E w \in Workers :
        /\ pc[w] = "lookup"
        /\ req[w].body.author = Str(<<"a", " ", "a", "a">>)
        /\ data[w].author = AuthorDict(<<"a">>, <<"a", "a">>)
====
